---------------------------- MODULE Spec2Model ----------------------------
(***************************************************************************)
(* Model of tools/downscale_texture.py: the dimension computation, the    *)
(* output path rules, the encoding policy of downscale_texture, the       *)
(* directory loop of batch_downscale and the exit code of main.           *)
(***************************************************************************)
EXTENDS Integers, Sequences, FiniteSets, TLC

(***************************************************************************)
(* Bounds of the model.                                                    *)
(***************************************************************************)
\* largest width and height enumerated for the dimension computation
MaxDim == 12
\* largest target size enumerated for the dimension computation
MaxT == 16
\* largest number of entries of the input directory
MaxFiles == 3

(***************************************************************************)
(* Python floats (IEEE-754 binary64).  A positive float is a record        *)
(* [m, e]: m is the significand as MantissaBits bits, most significant     *)
(* first and m[1] = 1, and e is the weight of its last bit, so the value   *)
(* is m * 2^e.  Significands do not fit TLC's integers, hence the bits.    *)
(***************************************************************************)
MantissaBits == 53

RECURSIVE BinDigits(_)
BinDigits(n) ==
    IF n = 0 THEN <<>> ELSE Append(BinDigits(n \div 2), n % 2)

\* the int a bit string spells
BitsValue(b) ==
    LET V[i \in 0..Len(b)] == IF i = 0 THEN 0 ELSE 2 * V[i - 1] + b[i]
    IN  V[Len(b)]

\* b + 1 on a bit string; a carry out of the first bit lengthens it by one bit
IncBits(b) ==
    IF \A k \in DOMAIN b : b[k] = 1
    THEN <<1>> \o [k \in DOMAIN b |-> 0]
    ELSE LET z == CHOOSE k \in DOMAIN b :
                     b[k] = 0 /\ \A j \in DOMAIN b : j > k => b[j] = 1
         IN  [k \in DOMAIN b |-> IF k < z THEN b[k] ELSE IF k = z THEN 1 ELSE 0]

\* round-half-to-even of the bit string b (weight of its last bit 2^e) to
\* MantissaBits bits, given that an extra nonzero tail follows when sticky
RoundNearestEven(b, e, sticky) ==
    IF Len(b) <= MantissaBits
    THEN [m |-> b, e |-> e]
    ELSE LET keep    == SubSeq(b, 1, MantissaBits)
             drop    == Len(b) - MantissaBits
             half    == b[MantissaBits + 1] = 1
             rest    == sticky \/ \E k \in (MantissaBits + 2)..Len(b) : b[k] = 1
             up      == half /\ (rest \/ keep[MantissaBits] = 1)
             r       == IF up THEN IncBits(keep) ELSE keep
         IN  IF Len(r) > MantissaBits
             THEN [m |-> SubSeq(r, 1, MantissaBits), e |-> e + drop + 1]
             ELSE [m |-> r, e |-> e + drop]

RECURSIVE Pow2Mod(_, _)
\* 2^k mod b, by squaring (b below 2^15, so that the squares fit)
Pow2Mod(k, b) ==
    IF k = 0 THEN 1 % b
    ELSE IF k % 2 = 0
    THEN CHOOSE v \in {(h * h) % b : h \in {Pow2Mod(k \div 2, b)}} : TRUE
    ELSE (2 * Pow2Mod(k - 1, b)) % b

\* a / b of two positive ints below 2^15 (Python's true division, correctly
\* rounded).  Long division: the remainder after k fraction bits is
\* a * 2^k mod b, and the k-th fraction bit says whether doubling the
\* remainder before it reaches b.  The quotient is taken to MantissaBits + 1
\* bits from its first 1 bit and rounded, the remainder being the sticky tail
TrueDiv(a, b) ==
    LET Rem(k)     == ((a % b) * Pow2Mod(k, b)) % b
        FracBit(k) == (2 * Rem(k - 1)) \div b
        ibits      == BinDigits(a \div b)
        lead       == IF ibits # <<>> THEN 0
                      ELSE (CHOOSE k \in 1..16 :
                               FracBit(k) = 1 /\ \A j \in 1..(k - 1) : FracBit(j) = 0) - 1
        n          == MantissaBits + 1 - Len(ibits)
    IN  RoundNearestEven(ibits \o [j \in 1..n |-> FracBit(lead + j)],
                         0 - (lead + n),
                         Rem(lead + n) # 0)

\* bits without their leading zeros
StripZeros(b) ==
    IF \A k \in DOMAIN b : b[k] = 0 THEN <<>>
    ELSE SubSeq(b, CHOOSE k \in DOMAIN b : b[k] = 1 /\ \A j \in 1..(k - 1) : b[j] = 0,
                Len(b))

\* x < 2^16 as 16 bits
Bits16(x) == LET d == BinDigits(x) IN [k \in 1..(16 - Len(d)) |-> 0] \o d

\* the bits of b * n for a bit string b of at most 64 bits and an int
\* 0 < n < 2^15: schoolbook multiplication on four 16-bit limbs
MulBits(b, n) ==
    LET padded  == [k \in 1..(64 - Len(b)) |-> 0] \o b
        Limb(j) == BitsValue(SubSeq(padded, 64 - 16 * j + 1, 64 - 16 * (j - 1)))
        \* limb j of the product and the carry out of it, j = 1 the lowest
        P[j \in 0..4] ==
            IF j = 0 THEN [out |-> <<>>, carry |-> 0]
            ELSE CHOOSE t \in
                   {[out   |-> Bits16((Limb(j) * n + p.carry) % 65536) \o p.out,
                     carry |-> (Limb(j) * n + p.carry) \div 65536] :
                       p \in {P[j - 1]}} : TRUE
    IN  CHOOSE bits \in {StripZeros(BinDigits(p.carry) \o p.out) : p \in {P[4]}} : TRUE

\* n * f for a positive int n and a float f: the int converts exactly, the
\* product is rounded once
IntTimesFloat(n, f) ==
    CHOOSE g \in {RoundNearestEven(MulBits(m, n), f.e, FALSE) : m \in {f.m}} : TRUE

\* int(f): truncation toward zero of a positive float below 2^31
FloatToInt(f) ==
    IF Len(f.m) + f.e <= 0 THEN 0
    ELSE BitsValue(SubSeq(f.m, 1, Len(f.m) + f.e))

Max(a, b) == IF a >= b THEN a ELSE b

(***************************************************************************)
(* downscale_texture: the target dimensions.                               *)
(***************************************************************************)
\* lines 48-52
AspectSize(original_size, target_size) ==
    CHOOSE new_size \in
        { << Max(1, FloatToInt(IntTimesFloat(original_size[1], ratio))),
             Max(1, FloatToInt(IntTimesFloat(original_size[2], ratio))) >> :
            ratio \in {TrueDiv(target_size,
                               Max(original_size[1], original_size[2]))} } : TRUE

NewSize(original_size, target_size, maintain_aspect) ==
    IF maintain_aspect
    THEN AspectSize(original_size, target_size)
    ELSE <<target_size, target_size>>

(***************************************************************************)
(* Strings are sequences of one-character strings, so that stem, suffix    *)
(* and lower() are computed.  A path is the sequence of its components.    *)
(***************************************************************************)
UpperChars == <<"A","B","C","D","E","F","G","H","I","J","K","L","M",
                "N","O","P","Q","R","S","T","U","V","W","X","Y","Z">>
LowerChars == <<"a","b","c","d","e","f","g","h","i","j","k","l","m",
                "n","o","p","q","r","s","t","u","v","w","x","y","z">>

\* str.lower() of one character
LowerChar(c) ==
    IF \E k \in DOMAIN UpperChars : UpperChars[k] = c
    THEN LowerChars[CHOOSE k \in DOMAIN UpperChars : UpperChars[k] = c]
    ELSE c

\* str.lower()
Lower(s) == [k \in DOMAIN s |-> LowerChar(s[k])]

DigitChars == <<"0","1","2","3","4","5","6","7","8","9">>

RECURSIVE Str(_)
\* str(n) of an int n >= 0, as an f-string formats it
Str(n) ==
    IF n < 10 THEN <<DigitChars[n + 1]>>
    ELSE Append(Str(n \div 10), DigitChars[(n % 10) + 1])

\* name.rfind('.') + 1: the place of the last dot, 0 when there is none
RFindDot(name) ==
    IF \E k \in DOMAIN name : name[k] = "."
    THEN CHOOSE k \in DOMAIN name :
            name[k] = "." /\ \A j \in DOMAIN name : name[j] = "." => j <= k
    ELSE 0

\* PurePath.suffix: from the last dot, unless that dot starts or ends the name
Suffix(name) ==
    LET i == RFindDot(name)
    IN  IF 1 < i /\ i < Len(name) THEN SubSeq(name, i, Len(name)) ELSE <<>>

\* PurePath.stem
Stem(name) ==
    LET i == RFindDot(name)
    IN  IF 1 < i /\ i < Len(name) THEN SubSeq(name, 1, i - 1) ELSE name

Parent(p) == SubSeq(p, 1, Len(p) - 1)
Name(p)   == p[Len(p)]
Join(p, name) == Append(p, name)

\* output_path=None, args.output when -o is not given: no path is empty
None == <<>>

(***************************************************************************)
(* The files of the model.                                                 *)
(***************************************************************************)
IconPng  == <<"i","c","o","n",".","p","n","g">>
PhotoJPG == <<"p","h","o","t","o",".","J","P","G">>
MaskPng  == <<"m","a","s","k",".","p","n","g">>
NotesTxt == <<"n","o","t","e","s",".","t","x","t">>
SubGif   == <<"s","u","b",".","g","i","f">>

\* what a directory entry of that name is when it exists: three images, a
\* text file and a directory named like an image
Universe == {IconPng, PhotoJPG, MaskPng, NotesTxt, SubGif}

DirEntry == [kind |-> "dir", ok |-> FALSE, size |-> <<0, 0>>, mode |-> ""]
FileEntry(ok, size, mode) == [kind |-> "file", ok |-> ok, size |-> size, mode |-> mode]

EntryOf(name, corruptNames) ==
    CASE name = IconPng  -> FileEntry(name \notin corruptNames, <<32, 32>>, "RGBA")
      [] name = PhotoJPG -> FileEntry(name \notin corruptNames, <<49, 49>>, "RGB")
      [] name = MaskPng  -> FileEntry(name \notin corruptNames, <<64, 20>>, "LA")
      [] name = NotesTxt -> FileEntry(FALSE, <<0, 0>>, "")
      [] OTHER           -> DirEntry

InDir   == << <<"t","e","x">> >>
Missing == << <<"g","o","n","e">> >>
OutDir  == << <<"o","u","t">> >>

\* explicit single-file outputs
OutJpg == Join(InDir, <<"o",".","j","p","g">>)
OutTif == Join(InDir, <<"o",".","t","i","f">>)
OutPNG == Join(InDir, <<"O",".","P","N","G">>)

\* the values of -s the model runs with
Targets == {16, 32}

Exists(f, p) == p \in DOMAIN f
IsDir(f, p)  == p \in DOMAIN f /\ f[p].kind = "dir"
IsFile(f, p) == p \in DOMAIN f /\ f[p].kind = "file"

(***************************************************************************)
(* downscale_texture.  The operation is a function of the filesystem and   *)
(* its arguments; its result records what it raised, what it returned,     *)
(* the filesystem it leaves and the calls it made on the image library.    *)
(***************************************************************************)
\* Image.save of Pillow on a path whose directory exists: the format follows
\* the lower-cased extension, and a format raises OSError for a mode it
\* cannot store (JPEG stores neither RGBA nor LA, BMP no LA)
SaveRaises(output_file, mode) ==
    LET ext == Lower(Suffix(Name(output_file)))
    IN  \/ ext \in {<<".","j","p","g">>, <<".","j","p","e","g">>}
             /\ mode \in {"RGBA", "LA"}
        \/ ext = <<".","b","m","p">> /\ mode = "LA"

\* a variant of DefaultOutputName that normalises the extension to lower case
DefaultOutputNameLower(input_name, target_size) ==
    Stem(input_name) \o <<"_">> \o Str(target_size) \o <<"x">>
        \o Str(target_size) \o Lower(Suffix(input_name))

\* the default output name of single-file mode
DefaultOutputName(input_name, target_size) ==
    Stem(input_name) \o <<"_">> \o Str(target_size) \o <<"x">>
        \o Str(target_size) \o Suffix(input_name)

\* lines 59-63: the output path
OutputFile(input_path, output_path, target_size) ==
    IF output_path = None
    THEN Join(Parent(input_path), DefaultOutputName(Name(input_path), target_size))
    ELSE output_path

\* lines 65-72: the mode handed to the encoder
SavedMode(output_file, mode) ==
    IF Lower(Suffix(Name(output_file))) \in {<<".","p","n","g">>, <<".","g","i","f">>}
    THEN mode
    ELSE IF mode = "RGBA" THEN "RGB" ELSE mode

Raise(f, exc, opened, resized, encoded) ==
    [raised |-> exc, ret |-> None, fs |-> f, opened |-> opened,
     resized |-> resized, encoded |-> encoded, printed |-> <<>>]

\* a variant of InputNotFound without the check: Image.open meets the path
InputNeverChecked(f, input_path) == FALSE

\* lines 38-39: the check that guards Image.open
InputNotFound(f, input_path) == ~Exists(f, input_path)

Downscale(f, input_path, output_path, target_size, maintain_aspect) ==
    IF InputNotFound(f, input_path)
    THEN Raise(f, "FileNotFoundError", <<>>, <<>>, <<>>)
    ELSE \* Image.open(input_path)
    IF ~Exists(f, input_path)
    THEN Raise(f, "FileNotFoundError", <<input_path>>, <<>>, <<>>)
    ELSE IF IsDir(f, input_path)
    THEN Raise(f, "IsADirectoryError", <<input_path>>, <<>>, <<>>)
    ELSE IF ~f[input_path].ok
    THEN Raise(f, "UnidentifiedImageError", <<input_path>>, <<>>, <<>>)
    ELSE
    LET img           == f[input_path]
        original_size == img.size
        new_size      == NewSize(original_size, target_size, maintain_aspect)
        res           == [orig |-> original_size, aspect |-> maintain_aspect,
                          new_size |-> new_size]
        output_file   == OutputFile(input_path, output_path, target_size)
        mode          == SavedMode(output_file, img.mode)
        enc           == [path |-> output_file, mode |-> mode]
    IN  IF SaveRaises(output_file, mode)
        THEN Raise(f, "OSError", <<input_path>>, <<res>>, <<enc>>)
        ELSE [raised  |-> "",
              ret     |-> output_file,
              fs      |-> [p \in DOMAIN f \cup {output_file} |->
                              IF p = output_file
                              THEN FileEntry(TRUE, new_size, mode)
                              ELSE f[p]],
              opened  |-> <<input_path>>,
              resized |-> <<res>>,
              encoded |-> <<enc>>,
              printed |-> << <<"Downscaled", original_size, new_size>>,
                             <<"Output", output_file>> >>]

(***************************************************************************)
(* batch_downscale: the setup before the loop.                             *)
(***************************************************************************)
DownscaledName(target_size) ==
    <<"d","o","w","n","s","c","a","l","e","d","_">> \o Str(target_size)
        \o <<"x">> \o Str(target_size)

\* a variant of OutPath whose default writes beside the inputs
OutPathInPlace(input_path, output_dir, target_size) ==
    IF output_dir = None THEN input_path ELSE output_dir

\* lines 104-107
OutPath(input_path, output_dir, target_size) ==
    IF output_dir = None
    THEN Join(input_path, DownscaledName(target_size))
    ELSE output_dir

\* a variant of MkdirRaises for mkdir(parents=True), exist_ok left out
MkdirRaisesIfExists(f, p) == Exists(f, p)

\* Path.mkdir(parents=True, exist_ok=True) on a path that is absent or a
\* directory: an existing directory is no error
MkdirRaises(f, p) == FALSE

\* ... and the path and its missing parents become directories
Mkdir(f, p) ==
    LET made == {SubSeq(p, 1, k) : k \in 1..Len(p)} \ DOMAIN f
    IN  [q \in DOMAIN f \cup made |-> IF q \in made THEN DirEntry ELSE f[q]]

\* the names iterdir() yields for the input directory, in its order: the
\* names it had, then the one an operation added to it
ListingAfter(names, before, after) ==
    LET new == {p \in DOMAIN after \ DOMAIN before : Parent(p) = InDir}
    IN  IF new = {} THEN names ELSE Append(names, Name(CHOOSE p \in new : TRUE))

extensions == {<<".","p","n","g">>, <<".","j","p","g">>, <<".","j","p","e","g">>,
               <<".","g","i","f">>, <<".","b","m","p">>}

IsImageFile(f, p) == IsFile(f, p) /\ Lower(Suffix(Name(p))) \in extensions

\* lines 112-113
ImageFiles(f, input_path, names) ==
    SelectSeq([k \in DOMAIN names |-> Join(input_path, names[k])],
              LAMBDA p : IsImageFile(f, p))

\* line 123
BatchOutputFile(out, img_file) ==
    Join(out, Stem(Name(img_file)) \o Suffix(Name(img_file)))

(***************************************************************************)
(* The state: the command line, the filesystem, and one run of main().     *)
(***************************************************************************)
VARIABLES
    args,         \* the parsed command line
    fs,           \* the filesystem: existing path -> entry
    listing,      \* the names iterdir() yields for InDir, in its order
    pc,           \* "start", "loop" (inside batch_downscale's for), "exit"
    out_path,     \* batch_downscale's out_path
    image_files,  \* batch_downscale's image_files
    idx,          \* the place of the for loop in image_files
    outputs,      \* batch_downscale's outputs
    calls,        \* the calls of downscale_texture of this run, in order
    printed,      \* the lines of standard output of this run
    raised,       \* the exception main() caught, "" when none
    exit_code,    \* the exit code, once pc = "exit"
    second,       \* whether this is the second run on the same filesystem
    fs0,          \* the filesystem when this run started
    first,        \* what the first run discovered and returned
    dim_in,       \* the dimension computation alone: its arguments
    dim_out       \* ... and its result

vars == <<args, fs, listing, pc, out_path, image_files, idx, outputs, calls,
          printed, raised, exit_code, second, fs0, first, dim_in, dim_out>>

runvars == <<out_path, image_files, idx, outputs>>
dvars   == <<dim_in, dim_out>>
mvars   == <<args, fs, listing, pc, out_path, image_files, idx, outputs, calls,
            printed, raised, exit_code, second, fs0, first>>

Range(s) == {s[k] : k \in DOMAIN s}

\* the orders in which a directory of at most MaxFiles entries is listed
Listings ==
    {s \in UNION {[1..n -> Universe] : n \in 0..MaxFiles} :
        \A j, k \in DOMAIN s : j # k => s[j] # s[k]}

InitFs(names, corruptNames) ==
    [p \in {InDir} \cup {Join(InDir, n) : n \in Range(names)} |->
        IF p = InDir THEN DirEntry ELSE EntryOf(Name(p), corruptNames)]

\* the command lines of the model: a single-file run on the directory, on a
\* missing path or on an image, with or without -o; a batch on the
\* directory, on a missing path or on a file, into the default directory, a
\* directory of its own or the input directory itself
ArgSpace ==
    [input : {InDir, Missing} \cup {Join(InDir, n) : n \in {IconPng, PhotoJPG, MaskPng}},
     output : {None, OutJpg, OutTif, OutPNG},
     size : Targets, batch : {FALSE}, keep_aspect : BOOLEAN]
    \cup
    [input : {InDir, Missing, Join(InDir, IconPng)},
     output : {None, OutDir, InDir},
     size : Targets, batch : {TRUE}, keep_aspect : BOOLEAN]

Init ==
    /\ listing \in Listings
    /\ \E corruptNames \in SUBSET (Range(listing) \cap {IconPng, PhotoJPG, MaskPng}) :
          fs = InitFs(listing, corruptNames)
    /\ args \in ArgSpace
    /\ pc = "start"
    /\ out_path = None
    /\ image_files = <<>>
    /\ idx = 0
    /\ outputs = <<>>
    /\ calls = <<>>
    /\ printed = <<>>
    /\ raised = ""
    /\ exit_code = -1
    /\ second = FALSE
    /\ fs0 = fs
    /\ first = [files |-> <<>>, outputs |-> <<>>]
    /\ dim_in = <<>>
    /\ dim_out = <<>>

\* a variant of ExitCode for a main() without sys.exit(1)
ExitCodeZero(exc) == 0

\* lines 204-206 of main, and the fall off its end
ExitCode(exc) == IF exc # "" THEN 1 ELSE 0

CallRecord(input_path, output_path, r) ==
    [input |-> input_path, output |-> output_path, raised |-> r.raised,
     ret |-> r.ret, opened |-> r.opened, resized |-> r.resized,
     encoded |-> r.encoded]

\* main() in single-file mode: lines 198-206
SingleRun ==
    /\ pc = "start"
    /\ ~args.batch
    /\ LET r == Downscale(fs, args.input, args.output, args.size, args.keep_aspect)
       IN  /\ fs' = r.fs
           /\ listing' = ListingAfter(listing, fs, r.fs)
           /\ calls' = Append(calls, CallRecord(args.input, args.output, r))
           /\ raised' = r.raised
           /\ printed' = printed \o r.printed \o
                 (IF r.raised # "" THEN << <<"Error", r.raised>> >> ELSE <<>>)
           /\ exit_code' = ExitCode(r.raised)
    /\ pc' = "exit"
    /\ UNCHANGED <<args, runvars, second, fs0, first, dvars>>

\* main() in batch mode up to the for loop: lines 191-196 and 98-119
BatchSetup ==
    /\ pc = "start"
    /\ args.batch
    /\ LET input_path == args.input
           out        == OutPath(input_path, args.output, args.size)
           exc        == IF ~IsDir(fs, input_path) THEN "NotADirectoryError"
                         ELSE IF MkdirRaises(fs, out) THEN "FileExistsError"
                         ELSE ""
           fs1        == Mkdir(fs, out)
           names      == ListingAfter(listing, fs, fs1)
           files      == ImageFiles(fs1, input_path, names)
       IN  IF exc # ""
           THEN /\ raised' = exc
                /\ printed' = Append(printed, <<"Error", exc>>)
                /\ exit_code' = ExitCode(exc)
                /\ pc' = "exit"
                /\ UNCHANGED <<fs, listing, runvars>>
           ELSE /\ fs' = fs1
                /\ listing' = names
                /\ out_path' = out
                /\ image_files' = files
                /\ UNCHANGED <<outputs, raised>>
                /\ IF files = <<>>
                   THEN /\ printed' = Append(printed, <<"NoImageFiles", input_path>>)
                        /\ exit_code' = ExitCode("")
                        /\ pc' = "exit"
                        /\ idx' = idx
                   ELSE /\ printed' = Append(printed, <<"Processing", Len(files)>>)
                        /\ exit_code' = exit_code
                        /\ pc' = "loop"
                        /\ idx' = 1
    /\ UNCHANGED <<args, calls, second, fs0, first, dvars>>

\* a variant of BatchAspect that hands --keep-aspect on to the batch
BatchAspectFromFlag(a) == a.keep_aspect

\* lines 125-129: batch_downscale passes no maintain_aspect, so its default
BatchAspect(a) == FALSE

\* a variant of Collect that keeps an entry for a failed file
CollectAlways(outs, r) == Append(outs, r.ret)

\* lines 130-132: the result is appended after a call that returned
Collect(outs, r) == IF r.raised = "" THEN Append(outs, r.ret) ELSE outs

\* a variant of CaughtByLoop for a loop that catches OSError alone
CaughtOnlyOSError(exc) == exc = "OSError"

\* line 131: except Exception catches every error downscale_texture raises
CaughtByLoop(exc) == TRUE

\* one turn of the for loop: lines 122-132
BatchIter ==
    /\ pc = "loop"
    /\ idx <= Len(image_files)
    /\ LET img_file    == image_files[idx]
           output_file == BatchOutputFile(out_path, img_file)
           r           == Downscale(fs, img_file, output_file, args.size,
                                    BatchAspect(args))
       IN  /\ fs' = r.fs
           /\ listing' = ListingAfter(listing, fs, r.fs)
           /\ calls' = Append(calls, CallRecord(img_file, output_file, r))
           /\ outputs' = Collect(outputs, r)
           /\ IF r.raised # "" /\ ~CaughtByLoop(r.raised)
              THEN /\ raised' = r.raised
                   /\ printed' = Append(printed, <<"Error", r.raised>>)
                   /\ exit_code' = ExitCode(r.raised)
                   /\ pc' = "exit"
                   /\ idx' = idx
              ELSE /\ printed' = printed \o
                        (IF r.raised # ""
                         THEN << <<"ErrorProcessing", Name(img_file), r.raised>> >>
                         ELSE r.printed)
                   /\ idx' = idx + 1
                   /\ UNCHANGED <<raised, exit_code, pc>>
    /\ UNCHANGED <<args, out_path, image_files, second, fs0, first, dvars>>

\* the end of batch_downscale and of main: lines 134-137
BatchReport ==
    /\ pc = "loop"
    /\ idx > Len(image_files)
    /\ printed' = printed \o << <<"Processed", Len(outputs), Len(image_files)>>,
                                <<"OutputDirectory", out_path>> >>
    /\ exit_code' = ExitCode("")
    /\ pc' = "exit"
    /\ UNCHANGED <<args, fs, listing, runvars, calls, raised, second, fs0,
                   first, dvars>>

\* the same command line is run once more on the filesystem the first run left
Rerun ==
    /\ pc = "exit"
    /\ ~second
    /\ second' = TRUE
    /\ first' = [files |-> image_files, outputs |-> outputs]
    /\ fs0' = fs
    /\ pc' = "start"
    /\ out_path' = None
    /\ image_files' = <<>>
    /\ idx' = 0
    /\ outputs' = <<>>
    /\ calls' = <<>>
    /\ printed' = <<>>
    /\ raised' = ""
    /\ exit_code' = -1
    /\ UNCHANGED <<args, fs, listing, dvars>>

Next == SingleRun \/ BatchSetup \/ BatchIter \/ BatchReport \/ Rerun

Spec == Init /\ [][Next]_vars

(***************************************************************************)
(* The dimension computation alone, over every size up to MaxDim and       *)
(* every target up to MaxT, and the sizes the documentation names.         *)
(***************************************************************************)
NamedSizes == {<<1, 1000>>, <<1000, 1>>, <<49, 49>>, <<640, 480>>}

DimInit ==
    /\ dim_in \in [orig : ((1..MaxDim) \X (1..MaxDim)) \cup NamedSizes,
                   T : 1..MaxT, aspect : BOOLEAN]
    /\ dim_out = <<>>
    /\ args = [input |-> None, output |-> None, size |-> dim_in.T,
               batch |-> FALSE, keep_aspect |-> dim_in.aspect]
    /\ fs = <<>>
    /\ listing = <<>>
    /\ pc = "dims"
    /\ out_path = None
    /\ image_files = <<>>
    /\ idx = 0
    /\ outputs = <<>>
    /\ calls = <<>>
    /\ printed = <<>>
    /\ raised = ""
    /\ exit_code = -1
    /\ second = FALSE
    /\ fs0 = <<>>
    /\ first = [files |-> <<>>, outputs |-> <<>>]

\* lines 45-54 on one original size
Resolve ==
    /\ pc = "dims"
    /\ dim_out = <<>>
    /\ dim_out' = NewSize(dim_in.orig, args.size, args.keep_aspect)
    /\ UNCHANGED <<dim_in, mvars>>

DimSpec == DimInit /\ [][Resolve]_vars

(***************************************************************************)
(* Properties.                                                             *)
(***************************************************************************)
InBatch == args.batch /\ pc \in {"loop", "exit"} /\ image_files # <<>>

FinalReport ==
    /\ Len(printed) >= 2
    /\ printed[Len(printed) - 1] = <<"Processed", Len(outputs), Len(image_files)>>
    /\ printed[Len(printed)] = <<"OutputDirectory", out_path>>

\* C1: in batch_downscale over an existing input directory, whatever files
\* match and whichever of them fail, each matching file is attempted exactly
\* once in discovery order, a failure is reported and the loop goes on with
\* the next file, and the batch reaches its final report, never ending early:
\* the calls so far are the first files of image_files, in its order; the
\* run is in the loop before or just past a file of it; and it has left the
\* loop only after the last file, with no error and the report printed last.
C1_AttemptsAllAndReports ==
    InBatch =>
        /\ Len(calls) <= Len(image_files)
        /\ \A k \in DOMAIN calls : calls[k].input = image_files[k]
        /\ \A j, k \in DOMAIN image_files : j # k => image_files[j] # image_files[k]
        /\ \A k \in DOMAIN calls :
              calls[k].raised # "" =>
                 <<"ErrorProcessing", Name(image_files[k]), calls[k].raised>>
                     \in Range(printed)
        /\ pc = "loop" =>
              /\ idx \in 1..(Len(image_files) + 1)
              /\ Len(calls) = idx - 1
              /\ ~FinalReport
        /\ pc = "exit" =>
              /\ Len(calls) = Len(image_files)
              /\ raised = ""
              /\ exit_code = 0
              /\ FinalReport

\* a batch of three files whose second failed and whose third was resized
C1_Witness ==
    /\ InBatch
    /\ pc = "exit"
    /\ Len(image_files) = 3
    /\ Len(calls) = 3
    /\ calls[2].raised # ""
    /\ calls[3].raised = ""
    /\ FinalReport

\* whether resizing img_file into out succeeds on the filesystem f
ResizeSucceeds(f, img_file, out) ==
    /\ f[img_file].ok
    /\ ~SaveRaises(out, SavedMode(out, f[img_file].mode))

BatchFinished == args.batch /\ pc = "exit" /\ raised = "" /\ image_files # <<>>

\* the matching files of the input directory when the run started
MatchingAtStart == {p \in DOMAIN fs0 : Parent(p) = args.input /\ IsImageFile(fs0, p)}

\* C2: batch_downscale returns exactly the output paths of the files whose
\* resize succeeded, in discovery order, with no entry for a failed file;
\* the report counts succeeded = the length of the result and attempted =
\* the number of matching files discovered.
C2_ReturnsSuccessesInOrder ==
    BatchFinished =>
        LET ok == SelectSeq(image_files,
                            LAMBDA p : ResizeSucceeds(fs0, p, Join(out_path, Name(p))))
        IN  /\ outputs = [k \in DOMAIN ok |-> Join(out_path, Name(ok[k]))]
            /\ \A k \in DOMAIN outputs : outputs[k] # None /\ IsFile(fs, outputs[k])
            /\ Len(image_files) = Cardinality(MatchingAtStart)
            /\ Range(image_files) = MatchingAtStart
            /\ <<"Processed", Len(ok), Cardinality(MatchingAtStart)>> \in Range(printed)

\* one corrupt file out of three: a result of length 2 and a count of 2/3
C2_Witness ==
    /\ BatchFinished
    /\ Len(image_files) = 3
    /\ Cardinality({k \in DOMAIN calls : calls[k].raised # ""}) = 1
    /\ Len(outputs) = 2
    /\ <<"Processed", 2, 3>> \in Range(printed)

\* C3: with maintain_aspect true the resolved dimensions are
\* (max(1, trunc(w0 * T / max(w0, h0))), max(1, trunc(h0 * T / max(w0, h0)))):
\* both are >= 1, and the larger original dimension resolves to T.
C3_AspectDimensions ==
    (pc = "dims" /\ dim_out # <<>> /\ dim_in.aspect) =>
        LET w0 == dim_in.orig[1]
            h0 == dim_in.orig[2]
            T  == dim_in.T
            m  == Max(w0, h0)
        IN  /\ dim_out = << Max(1, (w0 * T) \div m), Max(1, (h0 * T) \div m) >>
            /\ dim_out[1] >= 1
            /\ dim_out[2] >= 1
            /\ (IF w0 >= h0 THEN dim_out[1] ELSE dim_out[2]) = T

AllResized == UNION {Range(calls[k].resized) : k \in DOMAIN calls}

HasAlpha(mode) == mode \in {"RGBA", "LA"}

AlphaFormats == {<<".","p","n","g">>, <<".","g","i","f">>}

\* C5: an output whose extension is .png or .gif, compared without case, is
\* saved with its alpha channel unchanged; for every other extension an
\* image that carries an alpha channel is flattened before it is encoded,
\* so nothing with an alpha channel is written under such an extension.
C5_EncodingPolicy ==
    \A k \in DOMAIN calls : \A enc \in Range(calls[k].encoded) :
        IF Lower(Suffix(Name(enc.path))) \in AlphaFormats
        THEN enc.mode = fs0[calls[k].input].mode
        ELSE ~HasAlpha(enc.mode)

SingleDone == ~args.batch /\ pc = "exit" /\ raised = ""

\* name with tag put before its extension: the part from its last dot, when
\* that dot neither starts nor ends the name
TagBeforeExtension(name, tag) ==
    IF \E k \in 2..(Len(name) - 1) :
          name[k] = "." /\ \A j \in (k + 1)..Len(name) : name[j] # "."
    THEN LET k == CHOOSE k \in 2..(Len(name) - 1) :
                     name[k] = "." /\ \A j \in (k + 1)..Len(name) : name[j] # "."
         IN  SubSeq(name, 1, k - 1) \o tag \o SubSeq(name, k, Len(name))
    ELSE name \o tag

Photo16JPG == <<"p","h","o","t","o","_","1","6","x","1","6",".","J","P","G">>

\* C6: in single-file mode an explicit output path is used verbatim;
\* without one the output is in the directory of the input, named
\* {stem}_{T}x{T}{extension} with the extension in its original case
\* (photo.JPG at T = 16 gives photo_16x16.JPG), both halves of the suffix
\* being target_size also in aspect-preserving mode, whatever was resolved.
C6_SingleOutputPath ==
    SingleDone =>
        LET ret == calls[1].ret
            tag == <<"_">> \o Str(args.size) \o <<"x">> \o Str(args.size)
        IN  /\ IsFile(fs, ret)
            /\ args.output # None => ret = args.output
            /\ args.output = None =>
                  /\ Parent(ret) = Parent(args.input)
                  /\ Name(ret) = TagBeforeExtension(Name(args.input), tag)
                  /\ (Name(args.input) = PhotoJPG /\ args.size = 16) =>
                        Name(ret) = Photo16JPG

\* photo.JPG with --keep-aspect at size 16: resolved to 15x15, and written
\* as photo_16x16.JPG
C6_Witness ==
    /\ SingleDone
    /\ args.output = None
    /\ args.keep_aspect
    /\ Name(args.input) = PhotoJPG
    /\ args.size = 16
    /\ calls[1].resized[1].new_size # <<16, 16>>
    /\ calls[1].ret = Join(InDir, Photo16JPG)

\* C7: the exit code is 1 exactly when the top-level operation raised, and
\* 0 otherwise: in single mode every error (missing input, decode, encode)
\* ends the run with 1; in batch mode only an error about the directory
\* does, and a resize error never changes the exit code, so a batch over an
\* existing directory exits 0 whichever of its files fail, even all.
C7_ExitCode ==
    pc = "exit" =>
        /\ exit_code \in {0, 1}
        /\ exit_code = 1 <=> raised # ""
        /\ ~args.batch =>
              (exit_code = 1 <=> \E k \in DOMAIN calls : calls[k].raised # "")
        /\ args.batch =>
              /\ exit_code = 1 <=> ~IsDir(fs0, args.input)
              /\ exit_code = 1 => raised = "NotADirectoryError" /\ calls = <<>>

\* a batch of two files or more that all failed, and exit code 0
C7_Witness ==
    /\ pc = "exit"
    /\ args.batch
    /\ Len(calls) >= 2
    /\ \A k \in DOMAIN calls : calls[k].raised # ""
    /\ outputs = <<>>
    /\ exit_code = 0

AnyOpened == \E k \in DOMAIN calls : calls[k].opened # <<>>

\* C8: an input that fails the precondition leaves the filesystem as it
\* was: the single-file operation on an input path that does not reference
\* an existing file fails with FileNotFoundError before any image is opened
\* or any output written, and batch mode on an input path that is not an
\* existing directory fails with NotADirectoryError before the output
\* directory is created and before any file is processed.
C8_PreconditionErrors ==
    pc = "exit" =>
        /\ (~args.batch /\ ~IsFile(fs0, args.input)) =>
              /\ raised = "FileNotFoundError"
              /\ ~AnyOpened
              /\ fs = fs0
        /\ (args.batch /\ ~IsDir(fs0, args.input)) =>
              /\ raised = "NotADirectoryError"
              /\ calls = <<>>
              /\ fs = fs0

\* C8 as amended: the single-file operation on an input path that does not
\* exist fails with FileNotFoundError before any image is opened or any
\* output written; on a path that exists and is no file (a directory) it
\* fails as well, in Image.open and with another error, and writes nothing;
\* batch mode on an input path that is not an existing directory fails with
\* NotADirectoryError before the output directory is created and before any
\* file is processed.  Each leaves the filesystem as it was.
C8_PreconditionErrorsAmended ==
    pc = "exit" =>
        /\ (~args.batch /\ ~Exists(fs0, args.input)) =>
              /\ raised = "FileNotFoundError"
              /\ ~AnyOpened
              /\ fs = fs0
        /\ (~args.batch /\ Exists(fs0, args.input) /\ ~IsFile(fs0, args.input)) =>
              /\ raised \notin {"", "FileNotFoundError"}
              /\ calls[1].opened = <<args.input>>
              /\ calls[1].encoded = <<>>
              /\ fs = fs0
        /\ (args.batch /\ ~IsDir(fs0, args.input)) =>
              /\ raised = "NotADirectoryError"
              /\ calls = <<>>
              /\ fs = fs0

\* a single-file run on a missing path that ended with FileNotFoundError
C8_Witness ==
    /\ pc = "exit"
    /\ ~args.batch
    /\ ~Exists(fs0, args.input)
    /\ raised = "FileNotFoundError"
    /\ exit_code = 1
    /\ calls[1].opened = <<>>

NoMatchingAtStart == args.batch /\ IsDir(fs0, args.input) /\ MatchingAtStart = {}

\* C9: batch mode over an existing directory with no matching file reports
\* that, returns an empty result, invokes no resize and is no error (exit
\* code 0); the output directory is created all the same, its creation
\* coming before the check for files, and creating it when it is already
\* there is no error.
C9_EmptyBatch ==
    (pc = "exit" /\ NoMatchingAtStart) =>
        /\ printed = << <<"NoImageFiles", args.input>> >>
        /\ outputs = <<>>
        /\ image_files = <<>>
        /\ calls = <<>>
        /\ raised = ""
        /\ exit_code = 0
        /\ IsDir(fs, OutPath(args.input, args.output, args.size))
        /\ \A p \in DOMAIN fs0 : fs[p] = fs0[p]
        /\ \A p \in DOMAIN fs \ DOMAIN fs0 : fs[p] = DirEntry

\* an empty batch that created its default output directory
C9_Witness ==
    /\ pc = "exit"
    /\ NoMatchingAtStart
    /\ args.output = None
    /\ ~Exists(fs0, OutPath(args.input, args.output, args.size))
    /\ IsDir(fs, OutPath(args.input, args.output, args.size))
    /\ listing # <<>>
    /\ exit_code = 0

Downscaled16 == <<"d","o","w","n","s","c","a","l","e","d","_","1","6","x","1","6">>

DefaultBatch == args.batch /\ args.output = None /\ IsDir(fs0, args.input)
                   /\ pc \in {"loop", "exit"}

\* C10: in batch mode with the default output directory
\* ({input_dir}/downscaled_{T}x{T}) every output path is
\* {output_dir}/{stem}{extension} with no size suffix, distinct input files
\* get distinct output paths, no output path is the path of an input file,
\* so a batch overwrites none of its inputs and none of its earlier outputs,
\* and a second run of the same batch discovers the same input files.
C10_DefaultBatchPaths ==
    DefaultBatch =>
        /\ Parent(out_path) = args.input
        /\ args.size = 16 => Name(out_path) = Downscaled16
        /\ \A k \in DOMAIN calls :
              /\ calls[k].output = Join(out_path, Name(calls[k].input))
              /\ calls[k].output \notin Range(image_files)
              /\ \A j \in DOMAIN calls : j # k => calls[j].output # calls[k].output
        /\ \A p \in Range(image_files) : fs[p] = fs0[p]
        /\ \A k \in DOMAIN outputs : \A j \in DOMAIN calls :
              (calls[j].raised = "" /\ calls[j].ret = outputs[k]) =>
                  fs[outputs[k]] = FileEntry(TRUE, <<args.size, args.size>>,
                                             calls[j].encoded[1].mode)
        /\ second => image_files = first.files

\* the second run of a default batch of two files or more, with outputs
C10_Witness ==
    /\ DefaultBatch
    /\ second
    /\ pc = "exit"
    /\ Len(image_files) >= 2
    /\ first.files = image_files
    /\ first.outputs # <<>>
    /\ outputs = first.outputs

=============================================================================
